---------------------------- MODULE Spec2Model ----------------------------
(***************************************************************************)
(* BOLT-8 transport of rust-lightning (ln/peers): the Encryptor and the    *)
(* Decryptor of encryption.rs, modelled as a state machine.                *)
(*                                                                         *)
(* Byte vectors are kept in a compact form.  A plaintext is a run-length   *)
(* sequence of <<value, count>> runs; a ciphertext stream is a sequence of *)
(* slices [c, lo, hi) of AEAD outputs, where an AEAD output c is the       *)
(* symbolic term (key, nonce, associated data, plaintext, bad).  Lengths   *)
(* are the real ones: an AEAD output is its plaintext plus a 16-byte tag.  *)
(***************************************************************************)
EXTENDS Integers, Sequences, FiniteSets, TLC

VARIABLES
    sending_key, sending_chaining_key, sending_nonce,        \* Encryptor
    receiving_key, receiving_chaining_key, receiving_nonce,  \* Decryptor
    pending_message_length, read_buffer, decrypted_payloads, \* Decryptor
    wire,       \* bytes produced by the encryptor and not yet handed to the peer
    sent,       \* history: payloads encrypted and not yet returned to the caller
    taken,      \* history: payloads next() returned so far (fragmentation runs)
    n_enc,      \* history: number of encrypt_buf calls that returned
    rx,         \* history: concatenation of the data given to read() so far
    split,      \* history: reads that left part of a length header, of a body
    tampered,   \* history: index of the frame altered on the wire (0: none)
    last,       \* outcome of the last call
    failure,    \* history: receiving state when the decryptor first failed
    aborted,    \* the panic that ended the program ("" while it runs)
    limits,     \* the bounds of the run, fixed by the initial state
    outbound_handshake, inbound_handshake,  \* the PeerHandshake of each side
    peers,      \* the private keys of the two sides, fixed by the initial state
    acts,       \* acts the two sides have emitted
    completed,  \* history: CompletedHandshakeInfo each side was handed
    path,       \* history: states each PeerHandshake went through
    hlast,      \* outcome of the last call on a PeerHandshake
    short_acts  \* per side, whether process_act was ever given less than an act

hsVars == <<outbound_handshake, inbound_handshake, peers, acts, completed, path, hlast,
           short_acts>>

vars == <<sending_key, sending_chaining_key, sending_nonce,
          receiving_key, receiving_chaining_key, receiving_nonce,
          pending_message_length, read_buffer, decrypted_payloads,
          wire, sent, taken, n_enc, rx, split, tampered, last, failure,
          aborted, limits, hsVars>>

-----------------------------------------------------------------------------
(* Program constants *)

LN_MAX_MSG_LEN == 65535
MESSAGE_LENGTH_HEADER_SIZE == 2
TAG_SIZE == 16
TAGGED_MESSAGE_LENGTH_HEADER_SIZE == MESSAGE_LENGTH_HEADER_SIZE + TAG_SIZE
LN_MAX_PACKET_LENGTH ==
    MESSAGE_LENGTH_HEADER_SIZE + TAG_SIZE + LN_MAX_MSG_LEN + TAG_SIZE
KEY_ROTATION_INDEX == 1000
U16 == 65536

(* Bounds of the model *)

MaxFrames == 2      \* encrypt_buf calls in a fragmentation run
CutSlack == 1       \* a read ends at most this far from an AEAD output's edge
MaxRotations == 1   \* key rotations a rotation run goes through
MaxKeys == 2        \* static private keys a node may hold

-----------------------------------------------------------------------------
(* Plaintext byte vectors: run-length sequences *)

Min(a, b) == IF a < b THEN a ELSE b

Fill(v, n) == IF n = 0 THEN <<>> ELSE <<[v |-> v, n |-> n]>>

RECURSIVE PLen(_)
PLen(p) == IF p = <<>> THEN 0 ELSE Head(p).n + PLen(Tail(p))

RECURSIVE ByteAt(_, _)
ByteAt(p, i) == IF i < Head(p).n THEN Head(p).v ELSE ByteAt(Tail(p), i - Head(p).n)

(* byte_utils::be16_to_array and byte_utils::slice_to_be16 *)
be16_to_array(u) ==
    LET hi == u \div 256
        lo == u % 256
    IN  IF hi = lo THEN Fill(hi, 2) ELSE Fill(hi, 1) \o Fill(lo, 1)

slice_to_be16(p) == ByteAt(p, 0) * 256 + ByteAt(p, 1)

-----------------------------------------------------------------------------
(* Ciphertext byte vectors: sequences of slices of AEAD outputs *)

RECURSIVE BLen(_)
BLen(b) == IF b = <<>> THEN 0 ELSE (Head(b).hi - Head(b).lo) + BLen(Tail(b))

(* extend_from_slice: adjacent slices of one AEAD output are one slice *)
Concat(a, b) ==
    IF a = <<>> THEN b
    ELSE IF b = <<>> THEN a
    ELSE LET x == a[Len(a)]
             y == b[1]
         IN  IF x.c = y.c /\ x.hi = y.lo
             THEN SubSeq(a, 1, Len(a) - 1) \o <<[x EXCEPT !.hi = y.hi]>> \o Tail(b)
             ELSE a \o b

(* &buffer[from..to] *)
RECURSIVE BSlice(_, _, _)
BSlice(b, from, to) ==
    IF b = <<>> \/ to <= from THEN <<>>
    ELSE LET s == Head(b)
             n == s.hi - s.lo
         IN  IF from >= n THEN BSlice(Tail(b), from - n, to - n)
             ELSE <<[s EXCEPT !.lo = s.lo + from, !.hi = s.lo + Min(to, n)]>>
                  \o BSlice(Tail(b), 0, to - n)

BFrom(b, from) == BSlice(b, from, BLen(b))

-----------------------------------------------------------------------------
(* Primitives: chacha (ChaCha20-Poly1305) and hkdf5869rfc *)

EmptyAD == <<>>

(* chacha::encrypt: the ciphertext and its tag, PLen(plaintext) + 16 bytes *)
chacha_encrypt(key, nonce, ad, plaintext) ==
    <<[c |-> [key |-> key, nonce |-> nonce, ad |-> ad, pt |-> plaintext, bad |-> FALSE],
       lo |-> 0, hi |-> PLen(plaintext) + TAG_SIZE]>>

(* chacha::decrypt: the tag is verified first; only the whole, unaltered
   output of chacha::encrypt under the same key, nonce and associated data
   passes *)
chacha_decrypt(key, nonce, ad, ciphertext) ==
    IF /\ Len(ciphertext) = 1
       /\ ciphertext[1].lo = 0
       /\ ciphertext[1].hi = PLen(ciphertext[1].c.pt) + TAG_SIZE
       /\ ~ciphertext[1].c.bad
       /\ ciphertext[1].c.key = key
       /\ ciphertext[1].c.nonce = nonce
       /\ ciphertext[1].c.ad = ad
    THEN [ok |-> TRUE, pt |-> ciphertext[1].c.pt, err |-> ""]
    ELSE [ok |-> FALSE, pt |-> <<>>, err |-> "invalid hmac"]

(* hkdf5869rfc::derive(salt, ikm): two 32-byte outputs *)
hkdf_derive(salt, ikm) == << <<"hkdf", 1, salt, ikm>>, <<"hkdf", 2, salt, ikm>> >>


-----------------------------------------------------------------------------
(* Shared helpers of the Encryptor and the Decryptor *)

rotate_key(chaining_key, key) ==
    LET derived == hkdf_derive(chaining_key, key)
    IN  [chaining_key |-> derived[1], key |-> derived[2]]

(* increment_nonce_helper without its *nonce = 0 *)
increment_nonce_helper_no_reset(nonce, chaining_key, key) ==
    IF nonce + 1 = KEY_ROTATION_INDEX
    THEN [nonce |-> nonce + 1,
          chaining_key |-> rotate_key(chaining_key, key).chaining_key,
          key |-> rotate_key(chaining_key, key).key]
    ELSE [nonce |-> nonce + 1, chaining_key |-> chaining_key, key |-> key]

increment_nonce_helper(nonce, chaining_key, key) ==
    IF nonce + 1 = KEY_ROTATION_INDEX
    THEN [nonce |-> 0,
          chaining_key |-> rotate_key(chaining_key, key).chaining_key,
          key |-> rotate_key(chaining_key, key).key]
    ELSE [nonce |-> nonce + 1, chaining_key |-> chaining_key, key |-> key]

-----------------------------------------------------------------------------
(* Option<T> *)

None == [some |-> FALSE, v |-> 0]
NoneBuf == [some |-> FALSE, v |-> <<>>]
Some(x) == [some |-> TRUE, v |-> x]

-----------------------------------------------------------------------------
(* Encryptor *)

Encryptor_increment_nonce(e) ==
    LET r == increment_nonce_helper(e.sending_nonce, e.sending_chaining_key, e.sending_key)
    IN  [sending_key |-> r.key, sending_chaining_key |-> r.chaining_key,
         sending_nonce |-> r.nonce]

(* encrypt_buf with the first self.increment_nonce() left out: the body goes
   out under the nonce of the length header *)
encrypt_buf_one_nonce(e, buffer) ==
    IF PLen(buffer) > LN_MAX_MSG_LEN
    THEN [panic |-> TRUE, e |-> e, out |-> <<>>]
    ELSE [panic |-> FALSE, e |-> Encryptor_increment_nonce(e),
          out |-> Concat(chacha_encrypt(e.sending_key, e.sending_nonce, EmptyAD,
                                        be16_to_array(PLen(buffer) % U16)),
                         chacha_encrypt(e.sending_key, e.sending_nonce, EmptyAD, buffer))]

(* encrypt_buf with >= for > in its length check *)
encrypt_buf_off_by_one(e, buffer) ==
    IF PLen(buffer) >= LN_MAX_MSG_LEN
    THEN [panic |-> TRUE, e |-> e, out |-> <<>>]
    ELSE [panic |-> FALSE, e |-> Encryptor_increment_nonce(Encryptor_increment_nonce(e)),
          out |-> Concat(chacha_encrypt(e.sending_key, e.sending_nonce, EmptyAD,
                                        be16_to_array(PLen(buffer) % U16)),
                         chacha_encrypt(Encryptor_increment_nonce(e).sending_key,
                                        Encryptor_increment_nonce(e).sending_nonce,
                                        EmptyAD, buffer))]

(* encrypt_buf with its two chacha::encrypt calls in the other order: the body
   takes the first nonce, the length header the second *)
encrypt_buf_body_first(e, buffer) ==
    IF PLen(buffer) > LN_MAX_MSG_LEN
    THEN [panic |-> TRUE, e |-> e, out |-> <<>>]
    ELSE [panic |-> FALSE, e |-> Encryptor_increment_nonce(Encryptor_increment_nonce(e)),
          out |-> Concat(chacha_encrypt(Encryptor_increment_nonce(e).sending_key,
                                        Encryptor_increment_nonce(e).sending_nonce,
                                        EmptyAD, be16_to_array(PLen(buffer) % U16)),
                         chacha_encrypt(e.sending_key, e.sending_nonce, EmptyAD, buffer))]

(* Encryptor::encrypt_buf: the panic, or the encryptor after the call and the
   ciphertext returned *)
encrypt_buf(e, buffer) ==
    IF PLen(buffer) > LN_MAX_MSG_LEN
    THEN [panic |-> TRUE, e |-> e, out |-> <<>>]
    ELSE LET length == PLen(buffer) % U16
             length_bytes == be16_to_array(length)
             header == chacha_encrypt(e.sending_key, e.sending_nonce, EmptyAD, length_bytes)
             e1 == Encryptor_increment_nonce(e)
             body == chacha_encrypt(e1.sending_key, e1.sending_nonce, EmptyAD, buffer)
             e2 == Encryptor_increment_nonce(e1)
         IN  [panic |-> FALSE, e |-> e2, out |-> Concat(header, body)]

-----------------------------------------------------------------------------
(* Decryptor *)

(* Decryptor::increment_nonce that rotates the key and keeps the chaining key *)
Decryptor_increment_nonce_key_only(d) ==
    LET r == increment_nonce_helper(d.receiving_nonce, d.receiving_chaining_key,
                                    d.receiving_key)
    IN  [d EXCEPT !.receiving_key = r.key, !.receiving_nonce = r.nonce]

Decryptor_increment_nonce(d) ==
    LET r == increment_nonce_helper(d.receiving_nonce, d.receiving_chaining_key,
                                    d.receiving_key)
    IN  [d EXCEPT !.receiving_key = r.key, !.receiving_chaining_key = r.chaining_key,
                  !.receiving_nonce = r.nonce]

(* The results of Decryptor::decrypt_next: Ok((msg, n)) or Err(err), with the
   decryptor after the call; ops counts the AEAD operations of the call that
   succeeded *)
DnShort(d, ops) ==
    [res |-> "ok", err |-> "", msg |-> NoneBuf, n |-> 0, ops |-> ops, d |-> d]

DnErr(d, err, ops) ==
    [res |-> "err", err |-> err, msg |-> NoneBuf, n |-> 0, ops |-> ops, d |-> d]

DnMessage(d, message, n, ops) ==
    [res |-> "ok", err |-> "", msg |-> Some(message), n |-> n, ops |-> ops, d |-> d]

(* decrypt_next without the ? on the body's chacha::decrypt: a body that
   fails authentication is handed on as a message *)
decrypt_next_message_unchecked(d, message, message_end_index, ops) ==
    DnMessage(Decryptor_increment_nonce(d), message.pt, message_end_index, ops + 1)

(* decrypt_next, once the body has been through chacha::decrypt *)
decrypt_next_message(d, message, message_end_index, ops) ==
    IF ~message.ok
    THEN DnErr(d, message.err, ops)
    ELSE DnMessage(Decryptor_increment_nonce(d), message.pt, message_end_index, ops + 1)

(* decrypt_next that waits for one byte more than the frame has *)
decrypt_next_body_waits_longer(d, buffer, message_length, ops) ==
    LET message_end_index ==
            TAGGED_MESSAGE_LENGTH_HEADER_SIZE + message_length + TAG_SIZE
    IN  IF BLen(buffer) <= message_end_index
        THEN DnShort([d EXCEPT !.pending_message_length = Some(message_length)], ops)
        ELSE decrypt_next_message(
                 [d EXCEPT !.pending_message_length = None],
                 chacha_decrypt(d.receiving_key, d.receiving_nonce, EmptyAD,
                     BSlice(buffer, TAGGED_MESSAGE_LENGTH_HEADER_SIZE, message_end_index)),
                 message_end_index, ops)

(* decrypt_next, from the point where message_length is known *)
decrypt_next_body(d, buffer, message_length, ops) ==
    LET message_end_index ==
            TAGGED_MESSAGE_LENGTH_HEADER_SIZE + message_length + TAG_SIZE
    IN  IF BLen(buffer) < message_end_index
        THEN DnShort([d EXCEPT !.pending_message_length = Some(message_length)], ops)
        ELSE decrypt_next_message(
                 [d EXCEPT !.pending_message_length = None],
                 chacha_decrypt(d.receiving_key, d.receiving_nonce, EmptyAD,
                     BSlice(buffer, TAGGED_MESSAGE_LENGTH_HEADER_SIZE, message_end_index)),
                 message_end_index, ops)

(* decrypt_next without the self.increment_nonce() that follows the length
   header *)
decrypt_next_length_same_nonce(d, buffer, length) ==
    IF ~length.ok
    THEN DnErr(d, length.err, 0)
    ELSE decrypt_next_body(d, buffer, slice_to_be16(length.pt), 1)

(* decrypt_next, once the length header has been through chacha::decrypt *)
decrypt_next_length(d, buffer, length) ==
    IF ~length.ok
    THEN DnErr(d, length.err, 0)
    ELSE decrypt_next_body(Decryptor_increment_nonce(d), buffer,
                           slice_to_be16(length.pt), 1)

(* decrypt_next that waits for the 2 bytes of the length only, not for its tag *)
decrypt_next_untagged_length(d, buffer) ==
    IF d.pending_message_length.some
    THEN decrypt_next_body(d, buffer, d.pending_message_length.v, 0)
    ELSE IF BLen(buffer) < MESSAGE_LENGTH_HEADER_SIZE
    THEN DnShort(d, 0)
    ELSE decrypt_next_length(d, buffer,
             chacha_decrypt(d.receiving_key, d.receiving_nonce, EmptyAD,
                            BSlice(buffer, 0, TAGGED_MESSAGE_LENGTH_HEADER_SIZE)))

(* decrypt_next that does not look at pending_message_length *)
decrypt_next_forgets_pending(d, buffer) ==
    IF BLen(buffer) < TAGGED_MESSAGE_LENGTH_HEADER_SIZE
    THEN DnShort(d, 0)
    ELSE decrypt_next_length(d, buffer,
             chacha_decrypt(d.receiving_key, d.receiving_nonce, EmptyAD,
                            BSlice(buffer, 0, TAGGED_MESSAGE_LENGTH_HEADER_SIZE)))

(* Decryptor::decrypt_next *)
decrypt_next(d, buffer) ==
    IF d.pending_message_length.some
    THEN decrypt_next_body(d, buffer, d.pending_message_length.v, 0)
    ELSE IF BLen(buffer) < TAGGED_MESSAGE_LENGTH_HEADER_SIZE
    THEN DnShort(d, 0)
    ELSE decrypt_next_length(d, buffer,
             chacha_decrypt(d.receiving_key, d.receiving_nonce, EmptyAD,
                            BSlice(buffer, 0, TAGGED_MESSAGE_LENGTH_HEADER_SIZE)))

RECURSIVE read_loop(_, _, _, _)

(* the match that keeps the whole buffer, not buffer[read_offset..] *)
read_match_keeps_buffer(r, buffer, read_offset, ops) ==
    IF r.res = "ok" /\ r.msg.some
    THEN read_loop([r.d EXCEPT !.decrypted_payloads = Append(@, r.msg.v)],
                   buffer, read_offset + r.n, ops + r.ops)
    ELSE IF r.res = "ok" /\ r.n = 0
    THEN [res |-> "ok", err |-> "", ops |-> ops + r.ops,
          d |-> [r.d EXCEPT !.read_buffer = Some(buffer)]]
    ELSE IF r.res = "err"
    THEN [res |-> "err", err |-> r.err, ops |-> ops + r.ops, d |-> r.d]
    ELSE [res |-> "panic", err |-> "Invalid return from decrypt_next()",
          ops |-> ops + r.ops, d |-> r.d]

(* the match with a break after the first payload *)
read_match_first_only(r, buffer, read_offset, ops) ==
    IF r.res = "err"
    THEN [res |-> "err", err |-> r.err, ops |-> ops + r.ops, d |-> r.d]
    ELSE [res |-> "ok", err |-> "", ops |-> ops + r.ops,
          d |-> [r.d EXCEPT !.read_buffer = Some(BFrom(buffer, read_offset + r.n)),
                            !.decrypted_payloads =
                                IF r.msg.some THEN Append(@, r.msg.v) ELSE @]]

(* The loop of Decryptor::read: one match on the result r of decrypt_next *)
read_match(r, buffer, read_offset, ops) ==
    IF r.res = "ok" /\ r.msg.some
    THEN read_loop([r.d EXCEPT !.decrypted_payloads = Append(@, r.msg.v)],
                   buffer, read_offset + r.n, ops + r.ops)
    ELSE IF r.res = "ok" /\ r.n = 0
    THEN [res |-> "ok", err |-> "", ops |-> ops + r.ops,
          d |-> [r.d EXCEPT !.read_buffer = Some(BFrom(buffer, read_offset))]]
    ELSE IF r.res = "err"
    THEN [res |-> "err", err |-> r.err, ops |-> ops + r.ops, d |-> r.d]
    ELSE [res |-> "panic", err |-> "Invalid return from decrypt_next()",
          ops |-> ops + r.ops, d |-> r.d]

read_loop(d, buffer, read_offset, ops) ==
    read_match(decrypt_next(d, BFrom(buffer, read_offset)), buffer, read_offset, ops)

(* the check of Decryptor::read after its loop *)
read_check(r) ==
    IF r.res = "ok" /\ BLen(r.d.read_buffer.v) > LN_MAX_PACKET_LENGTH
    THEN [r EXCEPT !.res = "panic", !.err = "Encrypted message data longer than 65569"]
    ELSE r

(* read that undoes what its loop did when the loop fails *)
read_rolls_back(d, data) ==
    IF ~d.read_buffer.some
    THEN [res |-> "panic", err |-> "called Option::unwrap() on a None value",
          ops |-> 0, d |-> d]
    ELSE IF read_loop([d EXCEPT !.read_buffer = NoneBuf],
                      IF d.read_buffer.v = <<>> THEN data
                      ELSE Concat(d.read_buffer.v, data),
                      0, 0).res = "err"
    THEN [res |-> "err", err |-> "invalid hmac", ops |-> 0,
          d |-> [d EXCEPT !.read_buffer = NoneBuf]]
    ELSE read_check(read_loop([d EXCEPT !.read_buffer = NoneBuf],
                              IF d.read_buffer.v = <<>> THEN data
                              ELSE Concat(d.read_buffer.v, data),
                              0, 0))

(* read that drops the bytes it kept: the loop runs on data alone *)
read_drops_residue(d, data) ==
    IF ~d.read_buffer.some
    THEN [res |-> "panic", err |-> "called Option::unwrap() on a None value",
          ops |-> 0, d |-> d]
    ELSE read_check(read_loop([d EXCEPT !.read_buffer = NoneBuf], data, 0, 0))

(* read with the length check made on the buffer before the loop instead of
   on what the loop leaves *)
read_checks_before_loop(d, data) ==
    IF ~d.read_buffer.some
    THEN [res |-> "panic", err |-> "called Option::unwrap() on a None value",
          ops |-> 0, d |-> d]
    ELSE IF BLen(d.read_buffer.v) + BLen(data) > LN_MAX_PACKET_LENGTH
    THEN [res |-> "panic", err |-> "Encrypted message data longer than 65569",
          ops |-> 0, d |-> [d EXCEPT !.read_buffer = NoneBuf]]
    ELSE read_check(read_loop([d EXCEPT !.read_buffer = NoneBuf],
                              IF d.read_buffer.v = <<>> THEN data
                              ELSE Concat(d.read_buffer.v, data),
                              0, 0))

(* Decryptor::read: Ok(()), Err(err) or the panic, and the decryptor after
   the call *)
read(d, data) ==
    IF ~d.read_buffer.some
    THEN [res |-> "panic", err |-> "called Option::unwrap() on a None value",
          ops |-> 0, d |-> d]
    ELSE read_check(read_loop([d EXCEPT !.read_buffer = NoneBuf],
                              IF d.read_buffer.v = <<>> THEN data
                              ELSE Concat(d.read_buffer.v, data),
                              0, 0))

(* Iterator::next: decrypted_payloads.pop_front() *)
Decryptor_next(d) ==
    IF d.decrypted_payloads = <<>>
    THEN [item |-> NoneBuf, d |-> d]
    ELSE [item |-> Some(Head(d.decrypted_payloads)),
          d |-> [d EXCEPT !.decrypted_payloads = Tail(@)]]

(* create_encryptor_decryptor *)
create_encryptor(key, chaining_key) ==
    [sending_key |-> key, sending_chaining_key |-> chaining_key, sending_nonce |-> 0]

create_decryptor(key, chaining_key) ==
    [receiving_key |-> key, receiving_chaining_key |-> chaining_key,
     receiving_nonce |-> 0, read_buffer |-> Some(<<>>),
     pending_message_length |-> None, decrypted_payloads |-> <<>>]

-----------------------------------------------------------------------------
(* The handshake: PeerHandshake of handshake/mod.rs over the Noise_XK state
   machine of handshake/states.rs *)

(* lengths of the acts *)
ACT_ONE_LENGTH == 49
ACT_TWO_LENGTH == 49
ACT_THREE_LENGTH == 66
PUBLIC_KEY_LENGTH == 33

(* secp256k1: the public key of a private key, a point that does not parse,
   and ECDH, the same value from either side *)
PublicKey(private_key) == <<"pub", private_key>>
InvalidKey == <<"invalid">>
IsPublicKey(key) == key[1] = "pub"
ecdh(private_key, public_key) == <<"ecdh", {private_key, public_key[2]}>>

(* HandshakeHashState {h, ck, k} and its operations *)
mix_hash(hash, data) == [hash EXCEPT !.h = <<"sha256", @, data>>]

mix_key(hash, input_material) ==
    [hash EXCEPT !.ck = hkdf_derive(hash.ck, input_material)[1],
                 !.k = hkdf_derive(hash.ck, input_material)[2]]

encrypt_and_hash(hash, plaintext) ==
    [ct |-> chacha_encrypt(hash.k, 0, hash.h, plaintext),
     hash |-> mix_hash(hash, chacha_encrypt(hash.k, 0, hash.h, plaintext))]

decrypt_and_hash(hash, ciphertext) ==
    [pt |-> chacha_decrypt(hash.k, 0, hash.h, ciphertext),
     hash |-> mix_hash(hash, ciphertext)]

(* h and ck before Act 1: the protocol name, the prologue and the responder's
   static public key *)
initialize_state(responder_static_public_key) ==
    mix_hash(mix_hash([h |-> <<"sha256", "Noise_XK_secp256k1_ChaChaPoly_SHA256">>,
                       ck |-> <<"sha256", "Noise_XK_secp256k1_ChaChaPoly_SHA256">>,
                       k |-> <<>>],
                      "lightning"),
             responder_static_public_key)

(* an act: the version byte, a public key (Acts 1 and 2) or the encrypted
   static key (Act 3), and the tag *)
Act(version, key, c, tag) == [version |-> version, key |-> key, c |-> c, tag |-> tag]

(* Option<HandshakeState>, Option<Act>, Option<CompletedHandshakeInfo> *)
NoState == [some |-> FALSE, v |-> <<>>]

(* HandshakeState: the tagged variant and what it carries *)
HandshakeState(tag, hash, ephemeral, static, remote_static, remote_ephemeral, info) ==
    [tag |-> tag, hash |-> hash, ephemeral |-> ephemeral, static |-> static,
     remote_static |-> remote_static, remote_ephemeral |-> remote_ephemeral,
     info |-> info]

new_initiator(initiator_static_private_key, responder_static_public_key, initiator_ephemeral_private_key) ==
    HandshakeState("InitiatorAwaitingActOne",
                   initialize_state(responder_static_public_key),
                   initiator_ephemeral_private_key, initiator_static_private_key,
                   responder_static_public_key, <<>>, NoState)

new_responder(responder_static_private_key, responder_ephemeral_private_key) ==
    HandshakeState("ResponderAwaitingActOne",
                   initialize_state(PublicKey(responder_static_private_key)),
                   responder_ephemeral_private_key, responder_static_private_key,
                   <<>>, <<>>, NoState)

(* The results of IHandshakeState::next: Ok((act, state)) or Err(err) *)
NextOk(act, state) == [res |-> "ok", err |-> "", act |-> act, state |-> Some(state)]
NextErr(err) == [res |-> "err", err |-> err, act |-> NoState, state |-> NoState]

(* an act of Acts 1 and 2 built: the local ephemeral key and the tag *)
calculate_act_message(hash, local_private_ephemeral_key, remote_public_key) ==
    LET keyed == mix_key(mix_hash(hash, PublicKey(local_private_ephemeral_key)),
                         ecdh(local_private_ephemeral_key, remote_public_key))
    IN  [act |-> Act(0, PublicKey(local_private_ephemeral_key), <<>>,
                     encrypt_and_hash(keyed, <<>>).ct),
         hash |-> encrypt_and_hash(keyed, <<>>).hash]

(* an act of Acts 1 and 2 read: version, remote ephemeral key, tag *)
process_act_message(hash, act, local_private_key) ==
    IF act.version # 0 THEN [ok |-> FALSE, err |-> "unexpected version", hash |-> hash]
    ELSE IF ~IsPublicKey(act.key)
    THEN [ok |-> FALSE, err |-> "invalid remote ephemeral public key", hash |-> hash]
    ELSE LET keyed == mix_key(mix_hash(hash, act.key), ecdh(local_private_key, act.key))
         IN  IF ~decrypt_and_hash(keyed, act.tag).pt.ok
             THEN [ok |-> FALSE, err |-> "invalid hmac", hash |-> hash]
             ELSE [ok |-> TRUE, err |-> "", hash |-> decrypt_and_hash(keyed, act.tag).hash]

(* CompletedHandshakeInfo: the keys are HKDF(ck, empty), the final ck the
   chaining key of both directions *)
CompletedHandshakeInfo(sending_k, receiving_k, chaining_key, their_node_id) ==
    [encryptor |-> create_encryptor(sending_k, chaining_key),
     decryptor |-> create_decryptor(receiving_k, chaining_key),
     their_node_id |-> their_node_id]

Complete(info) == HandshakeState("Complete", <<>>, <<>>, <<>>, <<>>, <<>>, Some(info))

(* InitiatorAwaitingActOne: Act 1 is built whatever the input *)
InitiatorAwaitingActOne_built(state, built) ==
    NextOk(Some(built.act),
           HandshakeState("InitiatorAwaitingActTwo", built.hash, state.ephemeral,
                          state.static, state.remote_static, <<>>, NoState))

InitiatorAwaitingActOne_next(state, input) ==
    InitiatorAwaitingActOne_built(state,
        calculate_act_message(state.hash, state.ephemeral, state.remote_static))

(* ResponderAwaitingActOne: Act 1 is read and Act 2 built *)
ResponderAwaitingActOne_built(state, remote_ephemeral, built) ==
    NextOk(Some(built.act),
           HandshakeState("ResponderAwaitingActThree", built.hash, state.ephemeral,
                          state.static, <<>>, remote_ephemeral, NoState))

ResponderAwaitingActOne_read(state, act, message) ==
    IF ~message.ok THEN NextErr(message.err)
    ELSE ResponderAwaitingActOne_built(state, act.key,
             calculate_act_message(message.hash, state.ephemeral, act.key))

ResponderAwaitingActOne_next(state, input) ==
    IF input.len < ACT_ONE_LENGTH THEN NextOk(NoState, state)
    ELSE ResponderAwaitingActOne_read(state, input.act,
             process_act_message(state.hash, input.act, state.static))

(* InitiatorAwaitingActTwo: Act 2 is read, Act 3 built and the handshake
   complete *)
InitiatorAwaitingActTwo_complete(state, c, t) ==
    NextOk(Some(Act(0, <<>>, c.ct, t.ct)),
           Complete(CompletedHandshakeInfo(hkdf_derive(t.hash.ck, <<>>)[1],
                                           hkdf_derive(t.hash.ck, <<>>)[2],
                                           t.hash.ck, state.remote_static)))

InitiatorAwaitingActTwo_tagged(state, remote_ephemeral, c) ==
    InitiatorAwaitingActTwo_complete(state, c,
        encrypt_and_hash(mix_key(c.hash, ecdh(state.static, remote_ephemeral)), <<>>))

InitiatorAwaitingActTwo_read(state, act, message) ==
    IF ~message.ok THEN NextErr(message.err)
    ELSE InitiatorAwaitingActTwo_tagged(state, act.key,
             encrypt_and_hash(message.hash,
                              Fill(PublicKey(state.static), PUBLIC_KEY_LENGTH)))

InitiatorAwaitingActTwo_next(state, input) ==
    IF input.len < ACT_TWO_LENGTH THEN NextOk(NoState, state)
    ELSE InitiatorAwaitingActTwo_read(state, input.act,
             process_act_message(state.hash, input.act, state.ephemeral))

(* ResponderAwaitingActThree: Act 3 is read and the handshake complete *)
ResponderAwaitingActThree_complete(state, initiator_pubkey, t) ==
    IF ~t.pt.ok THEN NextErr(t.pt.err)
    ELSE NextOk(NoState,
                Complete(CompletedHandshakeInfo(hkdf_derive(t.hash.ck, <<>>)[2],
                                                hkdf_derive(t.hash.ck, <<>>)[1],
                                                t.hash.ck, initiator_pubkey)))

ResponderAwaitingActThree_keyed(state, initiator_pubkey, c, tag) ==
    IF ~IsPublicKey(initiator_pubkey) THEN NextErr("invalid remote public key")
    ELSE ResponderAwaitingActThree_complete(state, initiator_pubkey,
             decrypt_and_hash(mix_key(c.hash, ecdh(state.ephemeral, initiator_pubkey)),
                              tag))

ResponderAwaitingActThree_read(state, act, c) ==
    IF ~c.pt.ok THEN NextErr(c.pt.err)
    ELSE ResponderAwaitingActThree_keyed(state, Head(c.pt.pt).v, c, act.tag)

ResponderAwaitingActThree_next(state, input) ==
    IF input.len < ACT_THREE_LENGTH THEN NextOk(NoState, state)
    ELSE IF input.act.version # 0 THEN NextErr("unexpected version")
    ELSE ResponderAwaitingActThree_read(state, input.act,
             decrypt_and_hash(state.hash, input.act.c))

(* Complete has no act left to process: next fails, panics or stays
   Complete, whichever of the three the state machine does *)
Complete_next(state, after) ==
    IF after = "err" THEN NextErr("no acts left to process")
    ELSE IF after = "panic"
    THEN [res |-> "panic", err |-> "no acts left to process", act |-> NoState,
          state |-> NoState]
    ELSE NextOk(NoState, state)

(* IHandshakeState::next of HandshakeState *)
HandshakeState_next(state, input, after) ==
    IF state.tag = "InitiatorAwaitingActOne" THEN InitiatorAwaitingActOne_next(state, input)
    ELSE IF state.tag = "InitiatorAwaitingActTwo"
    THEN InitiatorAwaitingActTwo_next(state, input)
    ELSE IF state.tag = "ResponderAwaitingActOne"
    THEN ResponderAwaitingActOne_next(state, input)
    ELSE IF state.tag = "ResponderAwaitingActThree"
    THEN ResponderAwaitingActThree_next(state, input)
    ELSE Complete_next(state, after)

(* PeerHandshake {state, ready_to_process} *)
new_outbound(initiator_static_private_key, responder_static_public_key, initiator_ephemeral_private_key) ==
    [state |-> Some(new_initiator(initiator_static_private_key,
                                  responder_static_public_key,
                                  initiator_ephemeral_private_key)),
     ready_to_process |-> FALSE]

new_inbound(responder_static_private_key, responder_ephemeral_private_key) ==
    [state |-> Some(new_responder(responder_static_private_key,
                                  responder_ephemeral_private_key)),
     ready_to_process |-> TRUE]

(* The results of process_act and set_up_outbound: Ok((act, info)), Err(err) or
   the panic, with the PeerHandshake after the call *)
ActPanic(err, handshake) ==
    [res |-> "panic", err |-> err, act |-> NoState, info |-> NoState, h |-> handshake]

(* process_act without its self.state = Some(next_state) *)
process_act_match_drops_state(handshake, r) ==
    IF r.res = "panic" THEN ActPanic(r.err, handshake)
    ELSE IF r.res = "err"
    THEN [res |-> "err", err |-> r.err, act |-> NoState, info |-> NoState,
          h |-> handshake]
    ELSE IF r.state.v.tag = "Complete"
    THEN [res |-> "ok", err |-> "", act |-> r.act, info |-> r.state.v.info,
          h |-> handshake]
    ELSE [res |-> "ok", err |-> "", act |-> r.act, info |-> NoState, h |-> handshake]

(* process_act that clones the CompletedHandshakeInfo instead of taking it *)
process_act_match_clones_info(handshake, r) ==
    IF r.res = "panic" THEN ActPanic(r.err, handshake)
    ELSE IF r.res = "err"
    THEN [res |-> "err", err |-> r.err, act |-> NoState, info |-> NoState,
          h |-> handshake]
    ELSE IF r.state.v.tag = "Complete"
    THEN [res |-> "ok", err |-> "", act |-> r.act, info |-> r.state.v.info,
          h |-> [handshake EXCEPT !.state = r.state]]
    ELSE [res |-> "ok", err |-> "", act |-> r.act, info |-> NoState,
          h |-> [handshake EXCEPT !.state = r.state]]

(* process_act that takes a next() without an act for a failure *)
process_act_match_requires_act(handshake, r) ==
    IF r.res = "panic" THEN ActPanic(r.err, handshake)
    ELSE IF r.res = "err"
    THEN [res |-> "err", err |-> r.err, act |-> NoState, info |-> NoState,
          h |-> handshake]
    ELSE IF r.state.v.tag = "Complete"
    THEN [res |-> "ok", err |-> "", act |-> r.act, info |-> r.state.v.info,
          h |-> [handshake EXCEPT !.state = Some([r.state.v EXCEPT !.info = NoState])]]
    ELSE IF ~r.act.some
    THEN [res |-> "err", err |-> "no act", act |-> NoState, info |-> NoState,
          h |-> handshake]
    ELSE [res |-> "ok", err |-> "", act |-> r.act, info |-> NoState,
          h |-> [handshake EXCEPT !.state = r.state]]

(* process_act that never takes the CompletedHandshakeInfo out of Complete *)
process_act_match_keeps_info(handshake, r) ==
    IF r.res = "panic" THEN ActPanic(r.err, handshake)
    ELSE IF r.res = "err"
    THEN [res |-> "err", err |-> r.err, act |-> NoState, info |-> NoState,
          h |-> handshake]
    ELSE [res |-> "ok", err |-> "", act |-> r.act, info |-> NoState,
          h |-> [handshake EXCEPT !.state = r.state]]

(* process_act, from the result r of cur_state.next(input): on Err the state
   taken out of self.state is not put back *)
process_act_match(handshake, r) ==
    IF r.res = "panic" THEN ActPanic(r.err, handshake)
    ELSE IF r.res = "err"
    THEN [res |-> "err", err |-> r.err, act |-> NoState, info |-> NoState,
          h |-> handshake]
    ELSE IF r.state.v.tag = "Complete"
    THEN [res |-> "ok", err |-> "", act |-> r.act, info |-> r.state.v.info,
          h |-> [handshake EXCEPT !.state = Some([r.state.v EXCEPT !.info = NoState])]]
    ELSE [res |-> "ok", err |-> "", act |-> r.act, info |-> NoState,
          h |-> [handshake EXCEPT !.state = r.state]]

(* process_act that puts cur_state back when next fails *)
process_act_restores(handshake, input, after) ==
    IF ~handshake.ready_to_process
    THEN ActPanic("assertion failed: self.ready_to_process", handshake)
    ELSE IF ~handshake.state.some
    THEN ActPanic("called Option::unwrap() on a None value", handshake)
    ELSE process_act_match(handshake,
                           HandshakeState_next(handshake.state.v, input, after))

(* process_act without its assert!(self.ready_to_process) *)
process_act_unasserted(handshake, input, after) ==
    IF ~handshake.state.some
    THEN ActPanic("called Option::unwrap() on a None value", handshake)
    ELSE process_act_match([handshake EXCEPT !.state = NoState],
                           HandshakeState_next(handshake.state.v, input, after))

(* PeerHandshake::process_act *)
process_act(handshake, input, after) ==
    IF ~handshake.ready_to_process
    THEN ActPanic("assertion failed: self.ready_to_process", handshake)
    ELSE IF ~handshake.state.some
    THEN ActPanic("called Option::unwrap() on a None value", handshake)
    ELSE process_act_match([handshake EXCEPT !.state = NoState],
                           HandshakeState_next(handshake.state.v, input, after))

(* the empty slice set_up_outbound passes to process_act *)
EmptyInput == [act |-> Act(0, <<>>, <<>>, <<>>), len |-> 0]

(* set_up_outbound, from the result r of self.process_act(&[]) *)
set_up_outbound_unwrap(r) ==
    IF r.res = "panic" THEN r
    ELSE IF r.res = "err"
    THEN ActPanic("called Result::unwrap() on an Err value", r.h)
    ELSE IF r.info.some
    THEN ActPanic("assertion failed: completed_handshake_info.is_none()", r.h)
    ELSE IF ~r.act.some
    THEN ActPanic("called Option::unwrap() on a None value", r.h)
    ELSE r

(* PeerHandshake::set_up_outbound *)
set_up_outbound(handshake) ==
    IF handshake.ready_to_process
    THEN ActPanic("assertion failed: !self.ready_to_process", handshake)
    ELSE set_up_outbound_unwrap(
             process_act([handshake EXCEPT !.ready_to_process = TRUE], EmptyInput, "err"))

-----------------------------------------------------------------------------
(* The two peers of one direction of a connection *)

(* keys of create_encryptor_decryptor; ZeroKey is the [0; 32] of
   decryption_failure_errors *)
SendingKey == <<"sending_key">>
ChainingKey == <<"chaining_key">>
ZeroKey == <<"zero">>

(* payloads given to encrypt_buf *)
Payloads == {<<>>, Fill(1, 1), Fill(1, LN_MAX_MSG_LEN)}
Oversized == Fill(4, LN_MAX_MSG_LEN + 1)
RotPayloads == {<<>>, Fill(1, 1)}

(* encrypt_buf calls of a rotation run: one more than MaxRotations rotations need *)
RotFrames == MaxRotations * (KEY_ROTATION_INDEX \div 2) + 1

Enc == [sending_key |-> sending_key, sending_chaining_key |-> sending_chaining_key,
        sending_nonce |-> sending_nonce]

Dec == [receiving_key |-> receiving_key,
        receiving_chaining_key |-> receiving_chaining_key,
        receiving_nonce |-> receiving_nonce, read_buffer |-> read_buffer,
        pending_message_length |-> pending_message_length,
        decrypted_payloads |-> decrypted_payloads]

SetEnc(e) ==
    /\ sending_key' = e.sending_key
    /\ sending_chaining_key' = e.sending_chaining_key
    /\ sending_nonce' = e.sending_nonce

SetDec(d) ==
    /\ receiving_key' = d.receiving_key
    /\ receiving_chaining_key' = d.receiving_chaining_key
    /\ receiving_nonce' = d.receiving_nonce
    /\ read_buffer' = d.read_buffer
    /\ pending_message_length' = d.pending_message_length
    /\ decrypted_payloads' = d.decrypted_payloads

encVars == <<sending_key, sending_chaining_key, sending_nonce>>
decVars == <<receiving_key, receiving_chaining_key, receiving_nonce,
             read_buffer, pending_message_length, decrypted_payloads>>

RecvState(d) == <<d.receiving_key, d.receiving_chaining_key, d.receiving_nonce>>

NoFailure == [some |-> FALSE, err |-> "", state |-> <<>>]

(* frames with at least one byte on the wire: a frame is two AEAD outputs *)
InFlight(w) == (Len(w) + 1) \div 2

(* offsets of the edges of the AEAD outputs in a byte vector *)
RECURSIVE Edges(_, _)
Edges(b, at) ==
    IF b = <<>> THEN {at}
    ELSE {at} \cup Edges(Tail(b), at + (Head(b).hi - Head(b).lo))

(* sizes of the next piece handed to the decryptor: empty, or ending at most
   slack bytes from an edge of an AEAD output of the stream *)
ReadSizes(w, slack) ==
    {0} \cup
    {n \in UNION {(e - slack)..(e + slack) :
                     e \in Edges(w, IF w = <<>> THEN 0 ELSE 0 - w[1].lo)} :
        n > 0 /\ n <= BLen(w)}

(* the handshake is over: its objects are gone *)
NoHandshake ==
    [outbound_handshake |-> [state |-> NoState, ready_to_process |-> TRUE],
     inbound_handshake |-> [state |-> NoState, ready_to_process |-> TRUE]]

HandshakeOver ==
    /\ outbound_handshake = NoHandshake.outbound_handshake
    /\ inbound_handshake = NoHandshake.inbound_handshake
    /\ peers = <<>>
    /\ acts = {}
    /\ completed = <<>>
    /\ path = <<>>
    /\ hlast = <<>>
    /\ short_acts = <<>>

InitWith(lim, receiving_keys) ==
    /\ sending_key = create_encryptor(SendingKey, ChainingKey).sending_key
    /\ sending_chaining_key = create_encryptor(SendingKey, ChainingKey).sending_chaining_key
    /\ sending_nonce = create_encryptor(SendingKey, ChainingKey).sending_nonce
    /\ \E k \in receiving_keys :
       /\ receiving_key = create_decryptor(k, ChainingKey).receiving_key
       /\ receiving_chaining_key = create_decryptor(k, ChainingKey).receiving_chaining_key
       /\ receiving_nonce = create_decryptor(k, ChainingKey).receiving_nonce
       /\ read_buffer = create_decryptor(k, ChainingKey).read_buffer
       /\ pending_message_length = create_decryptor(k, ChainingKey).pending_message_length
       /\ decrypted_payloads = create_decryptor(k, ChainingKey).decrypted_payloads
    /\ wire = <<>>
    /\ sent = <<>>
    /\ taken = <<>>
    /\ n_enc = 0
    /\ rx = <<>>
    /\ split = [header |-> FALSE, body |-> FALSE, empty |-> FALSE]
    /\ tampered = 0
    /\ last = [op |-> "new", res |-> "", err |-> "", v |-> <<>>, n |-> 0, ops |-> 0,
               want |-> NoneBuf]
    /\ failure = NoFailure
    /\ aborted = ""
    /\ limits = lim

Running == aborted = ""

(* encrypt_buf returned r (or panicked): the ciphertext goes onto the wire *)
EncryptBufReturn(buffer, r) ==
    /\ SetEnc(r.e)
    /\ wire' = Concat(wire, r.out)
    /\ sent' = IF r.panic THEN sent ELSE Append(sent, buffer)
    /\ n_enc' = IF r.panic THEN n_enc ELSE n_enc + 1
    /\ aborted' = IF r.panic
                  THEN "Attempted to encrypt message longer than 65535 bytes!"
                  ELSE ""
    /\ last' = [op |-> "encrypt_buf", res |-> IF r.panic THEN "panic" ELSE "ok",
                err |-> "", v |-> buffer, n |-> BLen(r.out), ops |-> 0, want |-> NoneBuf]

(* a call of Encryptor::encrypt_buf *)
EncryptBufCall(buffer) ==
    /\ Running
    /\ n_enc < limits.frames
    /\ InFlight(wire) < limits.inflight
    /\ EncryptBufReturn(buffer, encrypt_buf(Enc, buffer))
    /\ UNCHANGED <<decVars, taken, rx, split, tampered, failure, limits, hsVars>>

(* the decryptor failed for the first time, in state d *)
Failed(r) ==
    IF r.res = "err" /\ ~failure.some
    THEN [some |-> TRUE, err |-> r.err, state |-> RecvState(r.d)]
    ELSE failure

(* read returned r (or panicked), given n bytes *)
ReadReturn(r, n) ==
    /\ SetDec(r.d)
    /\ aborted' = IF r.res = "panic" THEN r.err ELSE ""
    /\ last' = [op |-> "read", res |-> r.res, err |-> r.err, v |-> <<>>, n |-> n,
                ops |-> r.ops, want |-> NoneBuf]
    /\ failure' = Failed(r)
    /\ split' = IF limits.track /\ r.res = "ok"
                THEN [header |-> split.header \/ (~r.d.pending_message_length.some
                                                  /\ r.d.read_buffer.v # <<>>),
                      body |-> split.body \/ r.d.pending_message_length.some,
                      empty |-> split.empty \/ n = 0]
                ELSE split

(* a call of Decryptor::read with the next n bytes of the wire *)
ReadCall(n) ==
    /\ Running
    /\ Len(decrypted_payloads) < limits.queue
    /\ ReadReturn(read(Dec, BSlice(wire, 0, n)), n)
    /\ wire' = BFrom(wire, n)
    /\ rx' = IF limits.track THEN Concat(rx, BSlice(wire, 0, n)) ELSE rx
    /\ UNCHANGED <<encVars, sent, taken, n_enc, tampered, limits, hsVars>>

(* decrypt_next returned r: the caller drops the bytes it consumed *)
DecryptNextReturn(r) ==
    /\ SetDec(r.d)
    /\ wire' = BFrom(wire, r.n)
    /\ sent' = IF r.msg.some /\ sent # <<>> THEN Tail(sent) ELSE sent
    /\ last' = [op |-> "decrypt_next", res |-> r.res, err |-> r.err,
                v |-> r.msg.v, n |-> r.n, ops |-> r.ops,
                want |-> IF r.msg.some /\ sent # <<>> THEN Some(Head(sent)) ELSE NoneBuf]
    /\ failure' = Failed(r)

(* the bytes of a buffer, the first AEAD output in it altered *)
Altered(data) == [data EXCEPT ![1].c.bad = TRUE]

(* a call of Decryptor::decrypt_next by a caller that keeps the bytes itself:
   the first n bytes it holds, as received or altered *)
DecryptNextCall(n, altered) ==
    /\ Running
    /\ altered => n > 0
    /\ DecryptNextReturn(decrypt_next(Dec, IF altered THEN Altered(BSlice(wire, 0, n))
                                           ELSE BSlice(wire, 0, n)))
    /\ UNCHANGED <<encVars, taken, n_enc, rx, split, tampered, aborted, limits, hsVars>>

(* Iterator::next returned r *)
NextReturn(r) ==
    /\ SetDec(r.d)
    /\ sent' = IF r.item.some /\ sent # <<>> THEN Tail(sent) ELSE sent
    /\ taken' = IF limits.track /\ r.item.some THEN Append(taken, r.item.v) ELSE taken
    /\ last' = [op |-> "next", res |-> IF r.item.some THEN "some" ELSE "none",
                err |-> "", v |-> r.item.v, n |-> 0, ops |-> 0,
                want |-> IF Len(sent) > InFlight(wire) THEN Some(Head(sent)) ELSE NoneBuf]

(* a call of Iterator::next on the Decryptor *)
NextCall ==
    /\ Running
    /\ NextReturn(Decryptor_next(Dec))
    /\ UNCHANGED <<encVars, wire, n_enc, rx, split, tampered, failure, aborted, limits, hsVars>>

(* the network alters the k-th AEAD output still on the wire *)
Tamper(k) ==
    /\ Running
    /\ limits.tamper
    /\ tampered = 0
    /\ wire' = [wire EXCEPT ![k].c.bad = TRUE]
    /\ tampered' = n_enc - ((Len(wire) - k) \div 2)
    /\ UNCHANGED <<encVars, decVars, sent, taken, n_enc, rx, split, last, failure,
                   aborted, limits, hsVars>>

-----------------------------------------------------------------------------
(* Fragmentation runs: few frames, every payload, pieces cut near every edge *)

Init ==
    /\ HandshakeOver
    /\ InitWith([frames |-> MaxFrames, inflight |-> MaxFrames, queue |-> MaxFrames + 1,
              slack |-> CutSlack, track |-> TRUE, tamper |-> FALSE],
             {SendingKey})

Next ==
    \/ \E p \in Payloads : EncryptBufCall(p)
    \/ \E n \in ReadSizes(wire, limits.slack) : ReadCall(n)
    \/ NextCall

Spec == Init /\ [][Next]_vars

(* Tampering runs: the network alters a frame, or the receiving key is wrong *)

InitTamper ==
    /\ HandshakeOver
    /\ InitWith([frames |-> MaxFrames, inflight |-> MaxFrames, queue |-> MaxFrames + 1,
              slack |-> CutSlack, track |-> FALSE, tamper |-> TRUE],
             {SendingKey, ZeroKey})

NextTamper ==
    \/ \E p \in RotPayloads : EncryptBufCall(p)
    \/ \E n \in ReadSizes(wire, limits.slack) : ReadCall(n)
    \/ NextCall
    \/ \E k \in 1..Len(wire) : Tamper(k)

SpecTamper == InitTamper /\ [][NextTamper]_vars

(* Rotation runs: a long stream of frames, one in flight at a time *)

InitRot ==
    /\ HandshakeOver
    /\ InitWith([frames |-> RotFrames, inflight |-> 1, queue |-> 1, slack |-> 0, track |-> FALSE, tamper |-> FALSE],
             {SendingKey})

NextRot ==
    \/ \E p \in RotPayloads \cup {Oversized} : EncryptBufCall(p)
    \/ \E n \in ReadSizes(wire, limits.slack) : ReadCall(n)
    \/ NextCall

SpecRot == InitRot /\ [][NextRot]_vars

(* Runs of several frames read in whole pieces, one of them altered *)

InitPartial ==
    /\ HandshakeOver
    /\ InitWith([frames |-> MaxFrames + 1, inflight |-> MaxFrames + 1,
                 queue |-> MaxFrames + 1, slack |-> 0, track |-> FALSE, tamper |-> TRUE],
                {SendingKey})

NextPartial ==
    \/ \E p \in RotPayloads : EncryptBufCall(p)
    \/ \E n \in ReadSizes(wire, limits.slack) : ReadCall(n)
    \/ NextCall
    \/ \E k \in 1..Len(wire) : Tamper(k)

SpecPartial == InitPartial /\ [][NextPartial]_vars

(* Direct runs: the caller drives decrypt_next itself *)

InitDirect ==
    /\ HandshakeOver
    /\ InitWith([frames |-> MaxFrames, inflight |-> MaxFrames, queue |-> MaxFrames + 1,
              slack |-> CutSlack, track |-> FALSE, tamper |-> FALSE],
             {SendingKey})

NextDirect ==
    \/ \E p \in Payloads : EncryptBufCall(p)
    \/ \E n \in ReadSizes(wire, limits.slack), altered \in BOOLEAN :
          DecryptNextCall(n, altered)

SpecDirect == InitDirect /\ [][NextDirect]_vars

-----------------------------------------------------------------------------
(* The two PeerHandshake objects of a connection being set up *)

(* private keys: the static ones of the two nodes, and fresh ephemeral ones *)
StaticKeys == 1..MaxKeys
EphemeralKeys == {MaxKeys + 1, MaxKeys + 2}

Sides == {"outbound", "inbound"}

Handshake(side) == IF side = "outbound" THEN outbound_handshake ELSE inbound_handshake

(* the variant a PeerHandshake is in; None once process_act has failed *)
StateOf(handshake) == IF handshake.state.some THEN handshake.state.v.tag ELSE "None"

(* TestCtx::new, before set_up_outbound *)
InitHandshake ==
    /\ InitWith([frames |-> 0, inflight |-> 0, queue |-> 0, slack |-> 0,
                 track |-> FALSE, tamper |-> FALSE], {SendingKey})
    /\ \E is \in StaticKeys, rs \in StaticKeys, ie \in EphemeralKeys :
       \E re \in EphemeralKeys \ {ie} :
          /\ peers = [initiator_static |-> is, initiator_ephemeral |-> ie,
                      responder_static |-> rs, responder_ephemeral |-> re]
          /\ outbound_handshake = new_outbound(is, PublicKey(rs), ie)
          /\ inbound_handshake = new_inbound(rs, re)
    /\ acts = {}
    /\ completed = [outbound |-> <<>>, inbound |-> <<>>]
    /\ path = [outbound |-> <<"InitiatorAwaitingActOne">>,
               inbound |-> <<"ResponderAwaitingActOne">>]
    /\ hlast = [op |-> "new", side |-> "", res |-> "", err |-> "", act |-> NoState,
                info |-> NoState, before |-> NoHandshake.outbound_handshake,
                input |-> EmptyInput]
    /\ short_acts = [outbound |-> FALSE, inbound |-> FALSE]

(* the length of an act on the wire *)
ActLength(act) == IF act.c = <<>> THEN ACT_ONE_LENGTH ELSE ACT_THREE_LENGTH

(* the act b as the network can hand it over: whole, cut short, or with its
   version byte, its public key or one of its tags altered *)
Deliveries(b) ==
    {[act |-> b, len |-> n] : n \in {ActLength(b), ActLength(b) - 1}}
    \cup {[act |-> [b EXCEPT !.version = 1], len |-> ActLength(b)],
          [act |-> [b EXCEPT !.tag = Altered(@)], len |-> ActLength(b)],
          [act |-> IF b.c = <<>> THEN [b EXCEPT !.key = InvalidKey]
                   ELSE [b EXCEPT !.c = Altered(@)],
           len |-> ActLength(b)]}

Inputs == {EmptyInput} \cup UNION {Deliveries(b) : b \in acts}

(* the bytes the state of a PeerHandshake waits for *)
Expected(handshake) ==
    IF StateOf(handshake) = "ResponderAwaitingActThree" THEN ACT_THREE_LENGTH
    ELSE IF StateOf(handshake) \in {"ResponderAwaitingActOne", "InitiatorAwaitingActTwo"}
    THEN ACT_ONE_LENGTH
    ELSE ACT_THREE_LENGTH

CompleteNext == {"err", "panic", "same"}

(* process_act on a handshake that waits for an act, with fewer bytes than
   the act has *)
ShortAct(op, handshake, input) ==
    /\ op = "process_act"
    /\ handshake.ready_to_process
    /\ StateOf(handshake) \in {"ResponderAwaitingActOne", "InitiatorAwaitingActTwo",
                               "ResponderAwaitingActThree"}
    /\ input.len < Expected(handshake)

(* a call on a PeerHandshake returned r (or panicked) *)
HandshakeReturn(side, op, input, r) ==
    /\ outbound_handshake' = IF side = "outbound" THEN r.h ELSE outbound_handshake
    /\ inbound_handshake' = IF side = "inbound" THEN r.h ELSE inbound_handshake
    /\ acts' = IF r.res = "ok" /\ r.act.some THEN acts \cup {r.act.v} ELSE acts
    /\ completed' = IF r.res = "ok" /\ r.info.some
                    THEN [completed EXCEPT ![side] = Append(@, r.info.v)]
                    ELSE completed
    /\ path' = IF r.res # "panic" /\ StateOf(r.h) # path[side][Len(path[side])]
               THEN [path EXCEPT ![side] = Append(@, StateOf(r.h))]
               ELSE path
    /\ aborted' = IF r.res = "panic" THEN r.err ELSE ""
    /\ hlast' = [op |-> op, side |-> side, res |-> r.res, err |-> r.err, act |-> r.act,
                 info |-> r.info, before |-> Handshake(side), input |-> input]
    /\ short_acts' = IF ShortAct(op, Handshake(side), input)
                     THEN [short_acts EXCEPT ![side] = TRUE]
                     ELSE short_acts
    /\ UNCHANGED <<encVars, decVars, wire, sent, taken, n_enc, rx, split, tampered,
                   last, failure, limits, peers>>

(* a call of PeerHandshake::set_up_outbound *)
SetUpOutboundCall(side) ==
    /\ Running
    /\ HandshakeReturn(side, "set_up_outbound", EmptyInput,
                       set_up_outbound(Handshake(side)))

(* a call of PeerHandshake::process_act with bytes from the network *)
ProcessActCall(side, input, after) ==
    /\ Running
    /\ input.len <= Expected(Handshake(side))
    /\ after = "err" \/ StateOf(Handshake(side)) = "Complete"
    /\ HandshakeReturn(side, "process_act", input,
                       process_act(Handshake(side), input, after))

NextHandshake ==
    \/ \E side \in Sides : SetUpOutboundCall(side)
    \/ \E side \in Sides, input \in Inputs, after \in CompleteNext :
          ProcessActCall(side, input, after)

SpecHandshake == InitHandshake /\ [][NextHandshake]_vars

-----------------------------------------------------------------------------
(* Properties *)

(* frames whose bytes have all been handed to the decryptor *)
Received == n_enc - InFlight(wire)

(* payloads the decryptor has produced so far *)
Queued == n_enc - Len(sent) + Len(decrypted_payloads)

(* both peers have processed the same number of messages and nothing waits *)
InStep ==
    /\ Running
    /\ ~failure.some
    /\ wire = <<>>
    /\ read_buffer = Some(<<>>)
    /\ ~pending_message_length.some
    /\ decrypted_payloads = <<>>

RoundTripPayloads ==
    {<<>>, Fill(7, 1), Fill(7, 1) \o Fill(9, 1), Fill(3, 255), Fill(3, 256),
     Fill(3, 257), Fill(0, LN_MAX_MSG_LEN - 1), Fill(5, LN_MAX_MSG_LEN)}

ReadOk(r, p) == r.res = "ok" /\ Decryptor_next(r.d).item = Some(p)

(* C1: whenever the encryptor and the decryptor have processed the same number
   of messages, every payload of at most 65535 bytes (the empty one included)
   comes back from next() after read() is given the output of encrypt_buf; and
   every payload next() returned was the one encrypted *)
C1_RoundTrip ==
    /\ InStep => \A p \in RoundTripPayloads : ReadOk(read(Dec, encrypt_buf(Enc, p).out), p)
    /\ (last.op = "next" /\ last.res = "some") => Some(last.v) = last.want

(* an empty payload has made the round trip after a key rotation *)
C1_Witness ==
    /\ InStep
    /\ last.op = "next" /\ last.res = "some" /\ last.v = <<>>
    /\ n_enc > KEY_ROTATION_INDEX \div 2

(* C2: of a valid stream, the decryptor has queued exactly one payload per frame
   it was given in full, in the order the frames were encrypted; next() returns
   them one at a time, each once, and None when there is none left; read never
   fails *)
C2_FramesInOrder ==
    /\ Running /\ ~failure.some
    /\ Queued = Received
    /\ decrypted_payloads = SubSeq(sent, 1, Len(decrypted_payloads))
    /\ last.op = "read" => last.res = "ok"
    /\ last.op = "next" =>
          IF last.want.some THEN last.res = "some" /\ last.v = last.want.v
          ELSE last.res = "none"

(* one read held two complete frames and queued both *)
C2_Witness ==
    /\ last.op = "read" /\ last.ops = 4
    /\ Len(decrypted_payloads) = 2
    /\ wire = <<>>

SameAsOneRead(r) ==
    /\ r.res = "ok"
    /\ r.d.decrypted_payloads = taken \o decrypted_payloads
    /\ RecvState(r.d) = RecvState(Dec)
    /\ r.d.pending_message_length = pending_message_length
    /\ r.d.read_buffer = read_buffer

(* C3: however the stream was cut into the pieces given to read(), the payloads
   produced, the receiving key, chaining key and nonce, pending_message_length
   and the bytes kept are those of one read() of the whole on a fresh
   decryptor *)
C3_FragmentationInvariance ==
    SameAsOneRead(read(create_decryptor(SendingKey, ChainingKey), rx))

(* two frames were read in pieces that cut a length header and a body, one
   piece empty *)
C3_Witness ==
    /\ split.header /\ split.body /\ split.empty
    /\ wire = <<>> /\ n_enc = 2
    /\ Len(taken \o decrypted_payloads) = 2


-----------------------------------------------------------------------------
(* Nonces and key rotation *)

(* (chaining key, key) after j rotations of the pair a connection starts with *)
RECURSIVE Rotated(_)
Rotated(j) ==
    IF j = 0
    THEN [chaining_key |-> ChainingKey, key |-> SendingKey]
    ELSE rotate_key(Rotated(j - 1).chaining_key, Rotated(j - 1).key)

(* AEAD operations each side has completed *)
EncOps == 2 * n_enc
DecOps == 2 * Queued + (IF pending_message_length.some THEN 1 ELSE 0)

(* the number, from 0, of the AEAD operation that made the k-th output on the wire *)
WireOp(k) == EncOps - Len(wire) + (k - 1)

NonceOf(ops) == ops % KEY_ROTATION_INDEX
KeysOf(ops) == Rotated(ops \div KEY_ROTATION_INDEX)

(* C4: each AEAD operation that succeeds moves its direction's nonce on by
   one, and the step that would reach 1000 instead replaces (chaining key, key)
   by HKDF(chaining key, key) and sets the nonce to 0: after i operations the
   nonce is i mod 1000, always in 0..999, under the pair rotated i div 1000
   times, and an operation that follows a multiple of 1000 operations uses the
   rotated key with nonce 0 *)
C4_NonceStepAndRotation ==
    /\ sending_nonce \in 0..(KEY_ROTATION_INDEX - 1)
    /\ receiving_nonce \in 0..(KEY_ROTATION_INDEX - 1)
    /\ sending_nonce = NonceOf(EncOps)
    /\ sending_key = KeysOf(EncOps).key
    /\ sending_chaining_key = KeysOf(EncOps).chaining_key
    /\ ~failure.some =>
          /\ receiving_nonce = NonceOf(DecOps)
          /\ receiving_key = KeysOf(DecOps).key
          /\ receiving_chaining_key = KeysOf(DecOps).chaining_key
    /\ \A k \in 1..Len(wire) :
          NonceOf(WireOp(k)) = 0 =>
              /\ wire[k].c.nonce = 0
              /\ wire[k].c.key = KeysOf(WireOp(k)).key

(* both sides have rotated once, and the decryptor has verified the length
   header made by AEAD operation 1000 *)
C4_Witness ==
    /\ sending_nonce = 2
    /\ sending_key = Rotated(1).key
    /\ receiving_nonce = 1
    /\ receiving_key = Rotated(1).key
    /\ pending_message_length.some
    /\ ~failure.some

(* C5: the Nth encrypt_buf call (from 0) makes AEAD operations 2N and 2N+1 of
   its direction, the length header first and the body second, operation i
   under nonce i mod 1000; the decryptor expects the key and nonce of the
   first output it has not yet decrypted *)
C5_NonceOrdering ==
    /\ \A k \in 1..Len(wire) :
          /\ wire[k].c.nonce = NonceOf(WireOp(k))
          /\ WireOp(k) % 2 = 0 =>
                /\ k < Len(wire)
                /\ PLen(wire[k].c.pt) = MESSAGE_LENGTH_HEADER_SIZE
                /\ slice_to_be16(wire[k].c.pt) = PLen(wire[k + 1].c.pt)
    /\ (wire # <<>> /\ ~failure.some) =>
          /\ receiving_nonce = wire[1].c.nonce
          /\ receiving_key = wire[1].c.key

(* the decryptor has verified the length header of call 500, made under nonce
   0, and the body made under nonce 1 is next *)
C5_Witness ==
    /\ n_enc = KEY_ROTATION_INDEX \div 2 + 1
    /\ Len(wire) = 1
    /\ wire[1].c.nonce = 1
    /\ receiving_nonce = 1
    /\ pending_message_length.some

(* C5 as the specification words it: the Nth encrypt_buf call consumes the
   nonces 2N and 2N+1 themselves, for every N *)
C5_NoncesAre2N ==
    \A k \in 1..Len(wire) : wire[k].c.nonce = WireOp(k)

(* C6: once the decryptor has read, without an error, all the bytes of the k
   encrypt_buf calls made so far, its receiving key, chaining key and nonce
   are the encryptor's sending key, chaining key and nonce *)
C6_RotationSynchrony ==
    (wire = <<>> /\ ~failure.some) =>
        /\ receiving_key = sending_key
        /\ receiving_chaining_key = sending_chaining_key
        /\ receiving_nonce = sending_nonce
        /\ read_buffer = Some(<<>>)
        /\ ~pending_message_length.some

(* the last frame of a run through a rotation has been read *)
C6_Witness ==
    /\ wire = <<>>
    /\ n_enc > KEY_ROTATION_INDEX \div 2
    /\ last.op = "read"
    /\ last.res = "ok"
    /\ last.ops = 2
    /\ receiving_key = Rotated(1).key

(* buffer lengths on both sides of LN_MAX_MSG_LEN and of the u16 range *)
SizedPayloads ==
    {<<>>, Fill(4, 1), Fill(4, LN_MAX_MSG_LEN - 1), Fill(4, LN_MAX_MSG_LEN),
     Fill(4, LN_MAX_MSG_LEN + 1), Fill(4, LN_MAX_MSG_LEN + 2), Fill(4, 2 * U16)}

(* what encrypt_buf did, r, with the buffer p *)
Sized(r, p) ==
    IF PLen(p) > 65535
    THEN r.panic /\ r.e = Enc /\ r.out = <<>>
    ELSE ~r.panic /\ BLen(r.out) = 18 + PLen(p) + 16

(* C10: encrypt_buf panics on a buffer longer than 65535 bytes before any
   chacha::encrypt, returning nothing and leaving the sending key, chaining
   key and nonce as they were; a buffer of at most 65535 bytes is encrypted
   into 18 + len + 16 bytes *)
C10_OversizedPlaintext ==
    /\ \A p \in SizedPayloads : Sized(encrypt_buf(Enc, p), p)
    /\ last.op = "encrypt_buf" =>
          IF PLen(last.v) > 65535
          THEN /\ last.res = "panic"
               /\ last.n = 0
               /\ aborted = "Attempted to encrypt message longer than 65535 bytes!"
          ELSE /\ last.res = "ok"
               /\ last.n = 18 + PLen(last.v) + 16

(* encrypt_buf has panicked on 65536 bytes after frames that went through *)
C10_Witness ==
    /\ last.op = "encrypt_buf"
    /\ last.res = "panic"
    /\ PLen(last.v) = LN_MAX_MSG_LEN + 1
    /\ aborted # ""
    /\ n_enc > 0

-----------------------------------------------------------------------------
(* Failures of the decryptor *)

(* the frame, from 1, that cannot be authenticated: the first one under a
   wrong receiving key, else the one the network altered; 0 if there is none *)
BadFrame == IF receiving_key = ZeroKey THEN 1 ELSE tampered

(* C7: when a frame is altered, in its length header or its body, or the
   receiving key is not the key it was encrypted under, read has returned
   Err("invalid hmac") by the time it has been given the whole of that frame,
   and the payload of that frame, like those of the frames after it, never
   enters decrypted_payloads *)
C7_TamperDetection ==
    /\ BadFrame # 0 =>
          /\ Queued < BadFrame
          /\ Received >= BadFrame => failure.some
    /\ failure.some => (BadFrame # 0 /\ failure.err = "invalid hmac")
    /\ (last.op = "read" /\ last.res = "err") => last.err = "invalid hmac"

(* the body of the second frame was altered: read queued the first payload,
   verified the second length header and failed on the body *)
C7_Witness ==
    /\ tampered = 2
    /\ failure.some
    /\ failure.state[3] = 3
    /\ last.op = "read"
    /\ last.res = "err"
    /\ Queued = 1
    /\ Received = 2

(* C8: after read has returned an AEAD failure no later call on the
   decryptor panics *)
C8_NoPanicAfterFailure ==
    failure.some => aborted = ""

(* C9: once read or decrypt_next has returned an error, the receiving key,
   chaining key and nonce stay as that call left them *)
C9_NoAdvanceAfterFailure ==
    failure.some => RecvState(Dec) = failure.state

-----------------------------------------------------------------------------
(* The read buffer *)

(* read returned r from a buffer longer than LN_MAX_PACKET_LENGTH: it took at
   least one frame out of it, the payloads are those sent, in order, and what
   it kept is no longer than a packet *)
Grown(r) ==
    /\ r.res = "ok"
    /\ Len(r.d.decrypted_payloads) > Len(decrypted_payloads)
    /\ r.d.decrypted_payloads = SubSeq(sent, 1, Len(r.d.decrypted_payloads))
    /\ BLen(r.d.read_buffer.v) <= LN_MAX_PACKET_LENGTH

(* C11: read returns Ok when the bytes it kept and the bytes it is given
   are together longer than LN_MAX_PACKET_LENGTH and hold complete frames: it
   queues their payloads in order, and the length check bears only on what is
   left after the loop *)
C11_BufferGrowth ==
    /\ (Running /\ ~failure.some) =>
          \A n \in ReadSizes(wire, limits.slack) :
              BLen(read_buffer.v) + n > LN_MAX_PACKET_LENGTH =>
                  Grown(read(Dec, BSlice(wire, 0, n)))
    /\ (last.op = "read" /\ last.n > LN_MAX_PACKET_LENGTH) =>
          /\ last.res = "ok"
          /\ last.ops >= 2
          /\ BLen(read_buffer.v) <= LN_MAX_PACKET_LENGTH

(* read_buffer_can_grow_over_max_payload_len: one byte was read, then the
   rest of a 65535-byte frame together with a second one; both payloads are
   queued in order *)
C11_Witness ==
    /\ last.op = "read"
    /\ last.res = "ok"
    /\ last.n = 2 * LN_MAX_PACKET_LENGTH - 1
    /\ BLen(rx) = 2 * LN_MAX_PACKET_LENGTH
    /\ last.ops = 4
    /\ decrypted_payloads = <<Fill(1, LN_MAX_MSG_LEN), Fill(1, LN_MAX_MSG_LEN)>>
    /\ read_buffer = Some(<<>>)

(* What the loop of read leaves is shorter than a packet: decrypt_next
   returns (None, 0) only on fewer than 18 bytes or on fewer than
   18 + L + 16 <= LN_MAX_PACKET_LENGTH bytes, so the panic that follows the
   loop is never raised *)
ResidueWithinPacket ==
    /\ read_buffer.some => BLen(read_buffer.v) < LN_MAX_PACKET_LENGTH
    /\ aborted # "Encrypted message data longer than 65569"
    /\ aborted # "Invalid return from decrypt_next()"

-----------------------------------------------------------------------------
(* The handshake *)

(* the last call, on the PeerHandshake of one side *)
Called(op, side) == hlast.op = op /\ hlast.side = side

Panicked(err) == hlast.res = "panic" /\ aborted = err

(* C13: on an outbound PeerHandshake process_act panics until
   set_up_outbound has been called, and set_up_outbound returns Act 1 the
   first time and panics after that; on an inbound one set_up_outbound
   always panics and process_act is accepted from the start *)
C13_CallOrdering ==
    /\ inbound_handshake.ready_to_process
    /\ outbound_handshake.ready_to_process = (Len(path.outbound) > 1)
    /\ set_up_outbound(inbound_handshake).res = "panic"
    /\ (Called("process_act", "outbound") /\ ~hlast.before.ready_to_process) =>
          Panicked("assertion failed: self.ready_to_process")
    /\ Called("set_up_outbound", "outbound") =>
          IF hlast.before.ready_to_process
          THEN Panicked("assertion failed: !self.ready_to_process")
          ELSE /\ hlast.res = "ok"
               /\ hlast.act.some
               /\ ~hlast.info.some
               /\ outbound_handshake.ready_to_process
    /\ Called("set_up_outbound", "inbound") =>
          Panicked("assertion failed: !self.ready_to_process")
    /\ Called("process_act", "inbound") =>
          hlast.err # "assertion failed: self.ready_to_process"

(* set_up_outbound was called a second time on the outbound PeerHandshake *)
C13_Witness ==
    /\ Called("set_up_outbound", "outbound")
    /\ Panicked("assertion failed: !self.ready_to_process")
    /\ path.outbound = <<"InitiatorAwaitingActOne", "InitiatorAwaitingActTwo">>
    /\ StateOf(inbound_handshake) = "ResponderAwaitingActThree"

(* the act of an input is not the one a peer made: its version byte, its
   public key or a tag was altered *)
AlteredAct(act) ==
    \/ act.version # 0
    \/ act.key = InvalidKey
    \/ (act.tag # <<>> /\ act.tag[1].c.bad)
    \/ (act.c # <<>> /\ act.c[1].c.bad)

(* a PeerHandshake whose state was taken and not put back panics on every
   input *)
Unusable(handshake) ==
    \A input \in Inputs :
        /\ process_act(handshake, input, "err").res = "panic"
        /\ process_act(handshake, input, "err").err =
               "called Option::unwrap() on a None value"
        /\ process_act(handshake, input, "err").h = handshake

(* C14: when process_act returns an error (a tag that does not verify, a
   version byte that is not 0, a public key that does not parse) the caller
   gets the error, self.state stays None, and every later process_act on that
   PeerHandshake panics *)
C14_FailureIsTerminal ==
    /\ \A side \in Sides :
          /\ (Called("process_act", side) /\ hlast.res = "err") =>
                (~Handshake(side).state.some /\ hlast.err # ""
                 /\ ~hlast.act.some /\ ~hlast.info.some)
          /\ (Running /\ ~Handshake(side).state.some) =>
                (Unusable(Handshake(side))
                 /\ path[side][Len(path[side])] = "None")
          /\ \A i \in 1..(Len(path[side]) - 1) : path[side][i] # "None"
    /\ (hlast.op = "process_act" /\ hlast.before.ready_to_process
        /\ ~hlast.before.state.some) =>
          Panicked("called Option::unwrap() on a None value")
    /\ (hlast.op = "process_act" /\ hlast.before.ready_to_process
        /\ StateOf(hlast.before) \in {"ResponderAwaitingActOne",
                                      "InitiatorAwaitingActTwo",
                                      "ResponderAwaitingActThree"}
        /\ hlast.input.len = Expected(hlast.before)
        /\ AlteredAct(hlast.input.act)) =>
          hlast.res = "err"

(* use_after_error_panics: the responder was given an Act 1 that does not
   verify, then called again *)
C14_Witness ==
    /\ Called("process_act", "inbound")
    /\ Panicked("called Option::unwrap() on a None value")
    /\ path.inbound = <<"ResponderAwaitingActOne", "None">>
    /\ ~inbound_handshake.state.some

(* the last call was process_act in the state tag, on the whole act a peer
   with the ephemeral key made for it *)
Delivered(side, tag, ephemeral) ==
    /\ Called("process_act", side)
    /\ StateOf(hlast.before) = tag
    /\ hlast.input.len = Expected(hlast.before)
    /\ ~AlteredAct(hlast.input.act)
    /\ hlast.input.act.c = <<>> => hlast.input.act.key = PublicKey(ephemeral)

(* the keys of the two CompletedHandshakeInfo are each other's inverses *)
Inverses(a, b) ==
    /\ a.encryptor.sending_key = b.decryptor.receiving_key
    /\ b.encryptor.sending_key = a.decryptor.receiving_key
    /\ a.encryptor.sending_key # a.decryptor.receiving_key
    /\ a.encryptor.sending_chaining_key = b.decryptor.receiving_chaining_key
    /\ b.encryptor.sending_chaining_key = a.decryptor.receiving_chaining_key

(* C15: with Act 1 of set_up_outbound given to the responder, its Act 2 to
   the initiator and the initiator's Act 3 to the responder, both sides
   complete; each side's their_node_id is the other's static public key and
   each side's sending key is the other's receiving key *)
C15_HandshakeCompletes ==
    /\ Delivered("inbound", "ResponderAwaitingActOne", peers.initiator_ephemeral) =>
          (hlast.res = "ok" /\ hlast.act.some /\ ~hlast.info.some)
    /\ Delivered("outbound", "InitiatorAwaitingActTwo", peers.responder_ephemeral) =>
          (hlast.res = "ok" /\ hlast.act.some /\ hlast.info.some)
    /\ (Delivered("inbound", "ResponderAwaitingActThree", peers.initiator_ephemeral)
        /\ hlast.input.act.c # <<>>) =>
          (hlast.res = "ok" /\ ~hlast.act.some /\ hlast.info.some)
    /\ completed.outbound # <<>> =>
          completed.outbound[1].their_node_id = PublicKey(peers.responder_static)
    /\ completed.inbound # <<>> =>
          completed.inbound[1].their_node_id = PublicKey(peers.initiator_static)
    /\ (completed.outbound # <<>> /\ completed.inbound # <<>>) =>
          Inverses(completed.outbound[1], completed.inbound[1])

(* full_sequence_sanity_test: the responder has just completed on Act 3,
   after the initiator *)
C15_Witness ==
    /\ Called("process_act", "inbound")
    /\ hlast.info.some
    /\ Len(completed.outbound) = 1
    /\ Len(completed.inbound) = 1
    /\ peers.initiator_static # peers.responder_static
    /\ path.outbound = <<"InitiatorAwaitingActOne", "InitiatorAwaitingActTwo", "Complete">>
    /\ path.inbound = <<"ResponderAwaitingActOne", "ResponderAwaitingActThree", "Complete">>

-----------------------------------------------------------------------------
(* decrypt_next, called by a caller that keeps the bytes *)

(* the slices a caller may pass: the first n bytes it holds, n within its
   slack of an edge of an AEAD output, as received or altered *)
Slices(from, to) ==
    {BSlice(wire, 0, n) : n \in {m \in ReadSizes(wire, limits.slack) : from <= m /\ m < to}}
    \cup {Altered(BSlice(wire, 0, n)) :
             n \in {m \in ReadSizes(wire, limits.slack) : 0 < m /\ from <= m /\ m < to}}

(* C16: with pending_message_length = None, decrypt_next on fewer than 18
   bytes returns (None, 0) and leaves the receiving key, chaining key, nonce
   and pending_message_length as they were *)
C16_ShortHeaderRead ==
    /\ ~pending_message_length.some =>
          \A buffer \in Slices(0, 18) : decrypt_next(Dec, buffer) = DnShort(Dec, 0)
    /\ (last.op = "decrypt_next" /\ last.res = "ok" /\ last.ops = 0) => last.n = 0

(* decrypt_next was given fewer than 18 bytes of the second frame *)
C16_Witness ==
    /\ last.op = "decrypt_next"
    /\ last.res = "ok"
    /\ last.ops = 0
    /\ last.n = 0
    /\ ~pending_message_length.some
    /\ receiving_nonce = 2
    /\ wire # <<>>
    /\ ~failure.some

(* where the frame at the head of the bytes held ends, its payload being p *)
FrameEnd(p) == 18 + PLen(p) + 16

(* decrypt_next returned r on a length header without the whole body: one
   AEAD operation, the nonce one step on, the length kept *)
HeaderOnly(r, length) ==
    /\ r.res = "ok" /\ ~r.msg.some /\ r.n = 0 /\ r.ops = 1
    /\ r.d = [Decryptor_increment_nonce(Dec)
                 EXCEPT !.pending_message_length = Some(length)]

(* decrypt_next returned r on the whole frame of payload p, its length
   already known: the body alone is decrypted, under the next nonce *)
BodyOnly(r, p) ==
    /\ r.res = "ok" /\ r.msg = Some(p) /\ r.n = FrameEnd(p) /\ r.ops = 1
    /\ r.d = [Decryptor_increment_nonce(Dec) EXCEPT !.pending_message_length = None]

(* C17: given the 18-byte length header without the whole body, decrypt_next
   returns (None, 0), moves the nonce on by one step and sets
   pending_message_length = Some(L); called again before the body is whole
   it returns (None, 0) and changes nothing; called with the whole body it
   decrypts the body under the next nonce, clears pending_message_length and
   returns 18 + L + 16 as the bytes consumed *)
C17_HeaderDecryptedOnce ==
    (~failure.some /\ sent # <<>>) =>
        IF pending_message_length.some
        THEN /\ pending_message_length.v = PLen(Head(sent))
             /\ receiving_nonce % 2 = 1
             /\ \A n \in ReadSizes(wire, limits.slack) :
                   IF n < FrameEnd(Head(sent))
                   THEN decrypt_next(Dec, BSlice(wire, 0, n)) = DnShort(Dec, 0)
                   ELSE BodyOnly(decrypt_next(Dec, BSlice(wire, 0, n)), Head(sent))
        ELSE /\ receiving_nonce % 2 = 0
             /\ \A n \in ReadSizes(wire, limits.slack) :
                   (18 <= n /\ n < FrameEnd(Head(sent))) =>
                       HeaderOnly(decrypt_next(Dec, BSlice(wire, 0, n)), PLen(Head(sent)))

(* test_decrypt_from_slice_two_calls_header_then_rest: the header was
   decrypted by an earlier call, the last call decrypted the body alone *)
C17_Witness ==
    /\ last.op = "decrypt_next"
    /\ last.res = "ok"
    /\ last.ops = 1
    /\ last.want = Some(last.v)
    /\ last.n = FrameEnd(last.v)
    /\ PLen(last.v) = 1
    /\ ~pending_message_length.some
    /\ receiving_nonce = 2
    /\ ~failure.some

-----------------------------------------------------------------------------
(* The course of a handshake *)

InitiatorStates == <<"InitiatorAwaitingActOne", "InitiatorAwaitingActTwo", "Complete">>
ResponderStates == <<"ResponderAwaitingActOne", "ResponderAwaitingActThree", "Complete">>

(* the states p a PeerHandshake went through are the first ones of its
   role's line, in order, with nothing after them but the None an error leaves *)
Linear(p, line) ==
    \E k \in 1..Len(line) :
        /\ Len(p) >= k
        /\ SubSeq(p, 1, k) = SubSeq(line, 1, k)
        /\ Len(p) = k \/ (Len(p) = k + 1 /\ p[k + 1] = "None")

(* the last call moved the PeerHandshake of a side from one state to another *)
Moved(side, from, to) ==
    /\ hlast.side = side
    /\ hlast.res # "panic"
    /\ StateOf(hlast.before) = from
    /\ StateOf(Handshake(side)) = to

(* C18: an outbound PeerHandshake goes InitiatorAwaitingActOne ->
   InitiatorAwaitingActTwo (set_up_outbound, Act 1) -> Complete (Act 2 read,
   Act 3 emitted), an inbound one ResponderAwaitingActOne ->
   ResponderAwaitingActThree (Act 1 read, Act 2 emitted) -> Complete (Act 3
   read, nothing emitted); no call moves one to an earlier state or to a
   state of the other role *)
C18_LinearProgression ==
    /\ Linear(path.outbound, InitiatorStates)
    /\ Linear(path.inbound, ResponderStates)
    /\ \A side \in Sides :
          /\ Running => StateOf(Handshake(side)) = path[side][Len(path[side])]
          /\ (hlast.side = side /\ hlast.res = "ok") => Handshake(side).state.some
    /\ Moved("outbound", "InitiatorAwaitingActOne", "InitiatorAwaitingActTwo") =>
          /\ hlast.op = "set_up_outbound"
          /\ hlast.act.some /\ ActLength(hlast.act.v) = ACT_ONE_LENGTH
    /\ Moved("inbound", "ResponderAwaitingActOne", "ResponderAwaitingActThree") =>
          /\ hlast.op = "process_act" /\ hlast.input.len = ACT_ONE_LENGTH
          /\ hlast.act.some /\ ActLength(hlast.act.v) = ACT_TWO_LENGTH
    /\ Moved("outbound", "InitiatorAwaitingActTwo", "Complete") =>
          /\ hlast.op = "process_act" /\ hlast.input.len = ACT_TWO_LENGTH
          /\ hlast.act.some /\ ActLength(hlast.act.v) = ACT_THREE_LENGTH
    /\ Moved("inbound", "ResponderAwaitingActThree", "Complete") =>
          /\ hlast.op = "process_act" /\ hlast.input.len = ACT_THREE_LENGTH
          /\ ~hlast.act.some

(* both sides went down their whole line; the responder's last step emitted
   nothing *)
C18_Witness ==
    /\ path.outbound = InitiatorStates
    /\ path.inbound = ResponderStates
    /\ Moved("inbound", "ResponderAwaitingActThree", "Complete")
    /\ ~hlast.act.some

(* the last call reached Complete from the state before it *)
Completing(side) ==
    /\ hlast.op = "process_act"
    /\ hlast.side = side
    /\ hlast.res = "ok"
    /\ StateOf(hlast.before) \in {"InitiatorAwaitingActTwo", "ResponderAwaitingActThree"}
    /\ StateOf(Handshake(side)) = "Complete"

(* C19: a PeerHandshake returns Some(CompletedHandshakeInfo) in at most one
   call, the process_act that reaches Complete (the initiator's with Act 3,
   the responder's with no act); set_up_outbound never returns one, and a
   Complete handshake that is called again hands out nothing *)
C19_OneShotCompletion ==
    /\ \A side \in Sides :
          /\ Len(completed[side]) <= 1
          /\ (hlast.side = side /\ hlast.info.some) => Completing(side)
          /\ Completing(side) =>
                /\ hlast.info.some
                /\ completed[side] = <<hlast.info.v>>
          /\ (Running /\ StateOf(Handshake(side)) = "Complete") =>
                /\ ~Handshake(side).state.v.info.some
                /\ Len(completed[side]) = 1
    /\ Completing("outbound") =>
          hlast.act.some /\ ActLength(hlast.act.v) = ACT_THREE_LENGTH
    /\ Completing("inbound") => ~hlast.act.some
    /\ hlast.op = "set_up_outbound" => ~hlast.info.some
    /\ hlast.info.some => completed[hlast.side] = <<hlast.info.v>>

(* a Complete handshake was called again, and the call returned without a
   second CompletedHandshakeInfo *)
C19_Witness ==
    /\ hlast.op = "process_act"
    /\ hlast.res = "ok"
    /\ StateOf(hlast.before) = "Complete"
    /\ ~hlast.info.some
    /\ Len(completed[hlast.side]) = 1

(* C20: process_act with fewer bytes than the act the state waits for (49
   for Act 1 and Act 2, 66 for Act 3) returns no act, no completion and no
   error and leaves the PeerHandshake as it was, hash included, so that the
   whole act proceeds afterwards as if the short call had not been made *)
C20_InsufficientInput ==
    /\ ACT_ONE_LENGTH = 49 /\ ACT_TWO_LENGTH = 49 /\ ACT_THREE_LENGTH = 66
    /\ \A side \in Sides :
          (hlast.side = side /\ ShortAct(hlast.op, hlast.before, hlast.input)) =>
              /\ hlast.res = "ok"
              /\ ~hlast.act.some
              /\ ~hlast.info.some
              /\ Handshake(side) = hlast.before
              /\ Handshake(side).state.v.hash = hlast.before.state.v.hash
              /\ \A input \in Inputs :
                    process_act(Handshake(side), input, "err")
                        = process_act(hlast.before, input, "err")
    /\ (/\ short_acts.outbound \/ short_acts.inbound
        /\ Len(completed.outbound) = 1 /\ Len(completed.inbound) = 1) =>
          /\ Inverses(completed.outbound[1], completed.inbound[1])
          /\ completed.outbound[1].their_node_id = PublicKey(peers.responder_static)
          /\ completed.inbound[1].their_node_id = PublicKey(peers.initiator_static)

(* both sides were given less than an act at some point, and both completed *)
C20_ShortThenWhole ==
    /\ short_acts.outbound /\ short_acts.inbound
    /\ Len(completed.outbound) = 1 /\ Len(completed.inbound) = 1
    /\ path.outbound = InitiatorStates /\ path.inbound = ResponderStates

-----------------------------------------------------------------------------
(* What read keeps between calls *)

(* the first 18 bytes of b are the length header of a frame of length bytes,
   decrypted by the last increment of the receiving nonce *)
DecryptedHeader(b, length) ==
    LET h == BSlice(b, 0, TAGGED_MESSAGE_LENGTH_HEADER_SIZE)
    IN  /\ Len(h) = 1
        /\ h[1].lo = 0
        /\ h[1].hi = TAGGED_MESSAGE_LENGTH_HEADER_SIZE
        /\ ~h[1].c.bad
        /\ slice_to_be16(h[1].c.pt) = length
        /\ h[1].c.key = receiving_key
        /\ h[1].c.nonce + 1 = receiving_nonce

(* C21: after a read that returns Ok no complete frame is left in
   read_buffer: either pending_message_length is None and read_buffer holds
   fewer than 18 bytes, or it is Some(L) and read_buffer holds at least 18 and
   fewer than 18 + L + 16 bytes and begins with the decrypted header of the
   frame whose body is awaited *)
C21_ResidueInvariant ==
    (last.op = "read" /\ last.res = "ok") =>
        /\ read_buffer.some
        /\ IF pending_message_length.some
           THEN /\ BLen(read_buffer.v) >= TAGGED_MESSAGE_LENGTH_HEADER_SIZE
                /\ BLen(read_buffer.v) < TAGGED_MESSAGE_LENGTH_HEADER_SIZE
                                           + pending_message_length.v + TAG_SIZE
                /\ DecryptedHeader(read_buffer.v, pending_message_length.v)
           ELSE BLen(read_buffer.v) < TAGGED_MESSAGE_LENGTH_HEADER_SIZE

(* a read took a whole frame and stopped one byte before the end of the
   next one, a frame of one byte *)
C21_Witness ==
    /\ last.op = "read"
    /\ last.res = "ok"
    /\ last.ops = 3
    /\ pending_message_length = Some(1)
    /\ BLen(read_buffer.v) = TAGGED_MESSAGE_LENGTH_HEADER_SIZE + 1 + TAG_SIZE - 1

(* encrypt_buf calls between two key rotations *)
FramesPerKey == KEY_ROTATION_INDEX \div 2

(* C22: after every encrypt_buf call the sending nonce is even, and after
   every read that returns Ok the receiving nonce is odd exactly when
   pending_message_length is Some; so the key is rotated only right after the
   body of a frame, once every 500 frames, never between the length header and
   the body of a frame, and both are processed under one key *)
C22_NonceParity ==
    /\ sending_nonce % 2 = 0
    /\ sending_key = Rotated(n_enc \div FramesPerKey).key
    /\ (last.op = "read" /\ last.res = "ok") =>
          /\ (receiving_nonce % 2 = 1) <=> pending_message_length.some
          /\ receiving_key = Rotated(Queued \div FramesPerKey).key
          /\ pending_message_length.some =>
                DecryptedHeader(read_buffer.v, pending_message_length.v)
    /\ \A k \in 1..Len(wire) :
          (k < Len(wire) /\ wire[k].c.nonce % 2 = 0) =>
              /\ wire[k + 1].c.key = wire[k].c.key
              /\ wire[k + 1].c.nonce = wire[k].c.nonce + 1
              /\ PLen(wire[k].c.pt) = MESSAGE_LENGTH_HEADER_SIZE

(* the encryptor rotated its key right after the body of frame 500, made
   under nonce 999; the decryptor, which has verified that frame's length
   header, still holds the first key for the body *)
C22_Witness ==
    /\ last.op = "read"
    /\ last.res = "ok"
    /\ n_enc = FramesPerKey
    /\ sending_nonce = 0
    /\ sending_key = Rotated(1).key
    /\ pending_message_length.some
    /\ receiving_nonce = KEY_ROTATION_INDEX - 1
    /\ receiving_key = Rotated(0).key

(* the longest residue: a frame of 65535 bytes less its last byte *)
MaxResidue == TAGGED_MESSAGE_LENGTH_HEADER_SIZE + (U16 - 1) + TAG_SIZE - 1

(* C23: whatever read is given, what its loop leaves in read_buffer is at
   most 65568 bytes, less than LN_MAX_PACKET_LENGTH + 1, so the check after
   the loop never raises "Encrypted message data longer than 65569" *)
C23_ResidueCheckUnreachable ==
    /\ MaxResidue = 65568
    /\ MaxResidue < LN_MAX_PACKET_LENGTH + 1
    /\ read_buffer.some => BLen(read_buffer.v) <= MaxResidue
    /\ pending_message_length.some => pending_message_length.v <= U16 - 1
    /\ last.op = "read" => last.err # "Encrypted message data longer than 65569"
    /\ aborted # "Encrypted message data longer than 65569"

(* read kept the longest residue there is: of a frame of 65535 bytes, all
   but the last byte *)
C23_Witness ==
    /\ last.op = "read"
    /\ last.res = "ok"
    /\ pending_message_length = Some(LN_MAX_MSG_LEN)
    /\ BLen(read_buffer.v) = MaxResidue

-----------------------------------------------------------------------------
(* A read that fails after frames that went through *)

(* the AEAD outputs of a byte vector that come before its first altered one *)
RECURSIVE BeforeBad(_)
BeforeBad(b) ==
    IF b = <<>> \/ Head(b).c.bad THEN <<>> ELSE <<Head(b)>> \o BeforeBad(Tail(b))

IsBody(x) == x.c.nonce % 2 = 1

RECURSIVE PlaintextOf(_)
PlaintextOf(b) == IF b = <<>> THEN <<>> ELSE <<Head(b).c.pt>> \o PlaintextOf(Tail(b))

(* the payloads of the frames of b that are whole and come before the first
   altered output *)
PayloadsBeforeBad(b) == PlaintextOf(SelectSeq(BeforeBad(b), IsBody))

(* what a caller gets from next, called until it returns None *)
RECURSIVE Drain(_)
Drain(d) ==
    IF ~Decryptor_next(d).item.some THEN <<>>
    ELSE <<Decryptor_next(d).item.v>> \o Drain(Decryptor_next(d).d)

(* read returned r on the bytes b (what it kept, then what it was given): if
   it failed, it failed on the first altered output, with the payloads of the
   frames before it queued behind those already there and the nonce at the
   nonce of the failing output *)
PartialProgress(r, b) ==
    r.res = "err" =>
        /\ Len(BeforeBad(b)) < Len(b)
        /\ r.d.receiving_nonce = b[Len(BeforeBad(b)) + 1].c.nonce
        /\ r.d.decrypted_payloads = decrypted_payloads \o PayloadsBeforeBad(b)
        /\ Drain(r.d) = r.d.decrypted_payloads
        /\ r.ops = Len(BeforeBad(b)) - (IF pending_message_length.some THEN 1 ELSE 0)

(* C24: a read given k whole frames and then a frame that fails
   authentication returns the error with the k payloads queued, and next
   returns them in order after the error; the receiving nonce has advanced for
   the k frames, and for the length header of the failing frame when it is its
   body that failed *)
C24_PartialProgress ==
    /\ (Running /\ read_buffer.some) =>
          \A n \in ReadSizes(wire, limits.slack) :
              PartialProgress(read(Dec, BSlice(wire, 0, n)),
                              Concat(read_buffer.v, BSlice(wire, 0, n)))
    /\ failure.some =>
          /\ receiving_nonce = failure.state[3]
          /\ receiving_nonce \in {2 * (BadFrame - 1), 2 * (BadFrame - 1) + 1}
          /\ Queued = BadFrame - 1
          /\ decrypted_payloads = SubSeq(sent, 1, Len(decrypted_payloads))
          /\ Drain(Dec) = decrypted_payloads
          /\ (last.op = "next" /\ last.res = "some") => last.want = Some(last.v)
          /\ (last.op = "next" /\ last.res = "none") => decrypted_payloads = <<>>
    /\ (last.op = "read" /\ last.res = "err") => last.ops <= receiving_nonce

(* one read was given two frames and a third whose body was altered: it
   failed with both payloads queued, after four AEAD operations for the two
   frames and one for the third length header *)
C24_Witness ==
    /\ last.op = "read"
    /\ last.res = "err"
    /\ last.ops = 5
    /\ tampered = 3
    /\ receiving_nonce = 5
    /\ Len(decrypted_payloads) = 2
    /\ decrypted_payloads = SubSeq(sent, 1, 2)
    /\ Drain(Dec) = decrypted_payloads

=============================================================================
